---------------------------- MODULE Spec2Model ----------------------------
(***************************************************************************)
(* mdatlas: structure extraction (internal/core/parser.go), the structure  *)
(* cache (internal/core/cache.go), the structure manager                   *)
(* (internal/core/structure.go) and the MCP tool handlers that use them.   *)
(*                                                                         *)
(* These specifications share this module:                                 *)
(*   ParseSpec  the extraction pipeline applied to bounded documents;      *)
(*   SectionSpec  section retrieval by ID on the same documents;           *)
(*   ReparseSpec  the same bytes extracted twice while the clock runs;     *)
(*   Spec       the cache, the file system and the tool handlers, every    *)
(*              call taken as one step;                                    *)
(*   CapacitySpec  the cache called for more paths than it may hold;       *)
(*   FilterSpec the CLI command "structure" with --max-depth;              *)
(*   ServerSpec the request loop of the MCP server;                        *)
(*   AccessSpec path validation and the read that follows it;              *)
(*   RaceSpec   GetDocumentStructure and RefreshStructure taken one        *)
(*              file-system call at a time while the file is rewritten;    *)
(*   ConcSpec   the cache under concurrent callers and its sweep           *)
(*              goroutine, one step per lock acquisition and per access    *)
(*              made under the lock (ConcFairSpec adds the fairness of     *)
(*              the Go scheduler, of sync.RWMutex and of the ticker).      *)
(* A byte string is a sequence of one-character strings.  A Go slice value *)
(* is a record [isNil, elems]: nil and empty slices are different values.  *)
(***************************************************************************)
EXTENDS Integers, Sequences, FiniteSets, TLC

VARIABLES
    \* ParseSpec
    content,        \* the bytes handed to ParseStructure
    parsed,         \* the results of the ParseStructure calls so far
    sectionContent, \* the last GetSectionContent call and what it returned
    \* Spec
    structures,     \* Cache.structures: map path -> CacheEntry
    maxSize,        \* Cache.maxSize
    ttl,            \* Cache.ttl
    now,            \* the clock, in minutes
    fs,             \* the files: path -> [exists, readable, mtime, data]
    fsOps,          \* number of file-system changes made so far
    ret,            \* what the last call did and returned
    \* ConcSpec (with structures, maxSize, ttl, now and fs)
    mu,             \* Cache.mu: [w, readers]
    pc,             \* position of each goroutine
    arg,            \* path argument of each goroutine's current call
    swept           \* keys the sweep pass in progress has deleted

vars == <<content, parsed, sectionContent, structures, maxSize, ttl, now, fs, fsOps, ret,
          mu, pc, arg, swept>>

parseVars == <<content, parsed, sectionContent>>
cacheVars == <<structures, maxSize, ttl, now, fs, fsOps, ret>>
concVars  == <<mu, pc, arg, swept>>

---------------------------------------------------------------------------
(* Bounds *)

MaxLines   == 4     \* lines of a document in ParseSpec and SectionSpec
MaxReparseLines == 2    \* lines of a document in ReparseSpec
MaxClock   == 3     \* the clock stops here
MaxFsOps   == 2     \* file-system changes per behaviour
MaxSizeArg == 2     \* the maxSize handed to NewCache
TtlArg     == 1     \* the ttl handed to NewCache, in minutes

---------------------------------------------------------------------------
(* Byte strings *)

NL == "\n"

Min(a, b) == IF a < b THEN a ELSE b

\* strings.Split(s, "\n"): always at least one element
RECURSIVE SplitAcc(_, _)
SplitAcc(s, cur) ==
    IF s = <<>> THEN <<cur>>
    ELSE IF Head(s) = NL THEN <<cur>> \o SplitAcc(Tail(s), <<>>)
    ELSE SplitAcc(Tail(s), Append(cur, Head(s)))

Split(s) == SplitAcc(s, <<>>)

\* bytes.Count(s, "\n")
RECURSIVE CountNL(_)
CountNL(s) ==
    IF s = <<>> THEN 0
    ELSE (IF Head(s) = NL THEN 1 ELSE 0) + CountNL(Tail(s))

\* strings.Join(lines, "\n")
RECURSIVE Join(_)
Join(lines) ==
    IF lines = <<>> THEN <<>>
    ELSE IF Len(lines) = 1 THEN lines[1]
    ELSE lines[1] \o <<NL>> \o Join(Tail(lines))

RECURSIVE TrimLeft(_)
TrimLeft(s) == IF s # <<>> /\ Head(s) = " " THEN TrimLeft(Tail(s)) ELSE s

RECURSIVE TrimRight(_)
TrimRight(s) ==
    IF s # <<>> /\ s[Len(s)] = " " THEN TrimRight(SubSeq(s, 1, Len(s) - 1)) ELSE s

\* strings.TrimSpace
TrimSpace(s) == TrimRight(TrimLeft(s))

\* strconv.Itoa for a heading level
Itoa(n) == CASE n = 1 -> "1" [] n = 2 -> "2" [] n = 3 -> "3"
             [] n = 4 -> "4" [] n = 5 -> "5" [] n = 6 -> "6" [] OTHER -> "?"

---------------------------------------------------------------------------
(* Go slices *)

NilSlice == [isNil |-> TRUE, elems |-> <<>>]
Slice(es) == [isNil |-> FALSE, elems |-> es]

---------------------------------------------------------------------------
(* The heading walk.  The Markdown parser is a library: a line that opens  *)
(* with one to six '#' followed by a space is an ATX heading whose text    *)
(* segment starts after the spaces; the walk visits headings in document   *)
(* order.  Only headings with a non-empty text are modelled.               *)

RECURSIVE LeadingHashes(_)
LeadingHashes(line) ==
    IF line # <<>> /\ Head(line) = "#" THEN 1 + LeadingHashes(Tail(line)) ELSE 0

IsHeading(line) ==
    LET n == LeadingHashes(line) IN
    /\ n \in 1..6
    /\ Len(line) > n
    /\ line[n + 1] = " "
    /\ TrimSpace(SubSeq(line, n + 1, Len(line))) # <<>>

\* the heading nodes of the document: level, text and the byte offset at
\* which the text segment starts (0-based)
RECURSIVE HeadingNodes(_, _)
HeadingNodes(lines, offset) ==
    IF lines = <<>> THEN <<>>
    ELSE LET line == Head(lines)
             n    == LeadingHashes(line)
             rest == SubSeq(line, n + 1, Len(line))
             node == [Level    |-> n,
                      Text     |-> TrimLeft(rest),
                      SegStart |-> offset + n + (Len(rest) - Len(TrimLeft(rest)))]
         IN (IF IsHeading(line) THEN <<node>> ELSE <<>>)
            \o HeadingNodes(Tail(lines), offset + Len(line) + 1)

\* Parser.getLineNumber: newlines before the segment start, plus one
getLineNumber(node, bytes) == CountNL(SubSeq(bytes, 1, node.SegStart)) + 1

\* Parser.extractHeadingText
extractHeadingText(node) == TrimSpace(node.Text)

\* generateSectionID hashing the title alone
generateSectionIDTitleOnly(level, title) ==
    [prefix |-> "section_", sum |-> title]

\* Parser.generateSectionID: "section_" and the first 8 bytes of the
\* SHA-256 of title + Itoa(level); the digest is kept as its input
generateSectionID(level, title) ==
    [prefix |-> "section_", sum |-> title \o <<Itoa(level)>>]

\* Parser.extractSection
extractSection(node, bytes) ==
    LET title     == extractHeadingText(node)
        startLine == getLineNumber(node, bytes)
    IN [ID        |-> generateSectionID(node.Level, title),
        Level     |-> node.Level,
        Title     |-> title,
        StartLine |-> startLine,
        EndLine   |-> startLine,
        CharCount |-> 0,
        LineCount |-> 1,
        Children  |-> Slice(<<>>)]

\* Parser.extractSections: nil when the document has no heading
extractSections(bytes) ==
    LET nodes == HeadingNodes(Split(bytes), 0) IN
    IF nodes = <<>> THEN NilSlice
    ELSE Slice([i \in 1..Len(nodes) |-> extractSection(nodes[i], bytes)])

---------------------------------------------------------------------------
(* Section boundaries *)

\* Parser.calculateCharCount
calculateCharCount(bytes, startLine, endLine) ==
    LET lines == Split(bytes)
        RECURSIVE Sum(_)
        Sum(i) == IF i > Min(endLine, Len(lines)) THEN 0
                  ELSE Len(lines[i]) + 1 + Sum(i + 1)
    IN IF startLine > Len(lines) \/ endLine > Len(lines) \/ startLine < 1
       THEN 0
       ELSE Sum(startLine)

\* findEndLine stopping at the next heading whatever its level
findEndLineAnyLevel(secs, i, j, totalLines) ==
    IF j > Len(secs) THEN totalLines ELSE secs[j].StartLine - 1

\* findEndLine stopping only at a heading of a strictly smaller level
RECURSIVE findEndLineShallower(_, _, _, _)
findEndLineShallower(secs, i, j, totalLines) ==
    IF j > Len(secs) THEN totalLines
    ELSE IF secs[j].Level < secs[i].Level THEN secs[j].StartLine - 1
    ELSE findEndLineShallower(secs, i, j + 1, totalLines)

\* the inner loop of calculateSectionBoundaries: the first j > i whose
\* level is <= that of i decides the end line
RECURSIVE findEndLine(_, _, _, _)
findEndLine(secs, i, j, totalLines) ==
    IF j > Len(secs) THEN totalLines
    ELSE IF secs[j].Level <= secs[i].Level THEN secs[j].StartLine - 1
    ELSE findEndLine(secs, i, j + 1, totalLines)

\* Parser.calculateSectionBoundaries
calculateSectionBoundaries(sections, bytes) ==
    LET totalLines == Len(Split(bytes))
        secs       == sections.elems
        bound(i)   ==
            LET endLine == findEndLine(secs, i, i + 1, totalLines) IN
            [secs[i] EXCEPT
                !.EndLine   = endLine,
                !.LineCount = endLine - secs[i].StartLine + 1,
                !.CharCount = calculateCharCount(bytes, secs[i].StartLine, endLine)]
    IN [sections EXCEPT !.elems = [i \in 1..Len(secs) |-> bound(i)]]

---------------------------------------------------------------------------
(* The hierarchy builder.  It keeps pointers into slices that it appends   *)
(* to, so slices are modelled as Go has them: a header [isNil, arr, len,   *)
(* cap] over a backing array of the heap, append writing in place while    *)
(* len < cap and copying to a fresh array otherwise.  A pointer is         *)
(* [arr, idx].                                                             *)

NilHdr   == [isNil |-> TRUE,  arr |-> 0, len |-> 0, cap |-> 0]
EmptyHdr == [isNil |-> FALSE, arr |-> 0, len |-> 0, cap |-> 0]

ZeroSection ==
    [ID |-> [prefix |-> "", sum |-> <<>>], Level |-> 0, Title |-> <<>>,
     StartLine |-> 0, EndLine |-> 0, CharCount |-> 0, LineCount |-> 0,
     Children |-> NilHdr]

\* capacity chosen by append when the backing array is full
growCap(cap) == IF cap = 0 THEN 1 ELSE 2 * cap

\* append(hdr, x): the new heap and the new header
appendSection(heap, hdr, x) ==
    IF hdr.len < hdr.cap
    THEN [heap |-> [heap EXCEPT ![hdr.arr][hdr.len + 1] = x],
          hdr  |-> [hdr EXCEPT !.len = hdr.len + 1]]
    ELSE LET newCap == growCap(hdr.cap)
             newArr == [i \in 1..newCap |->
                           IF i <= hdr.len THEN heap[hdr.arr][i]
                           ELSE IF i = hdr.len + 1 THEN x
                           ELSE ZeroSection]
         IN [heap |-> Append(heap, newArr),
             hdr  |-> [isNil |-> FALSE, arr |-> Len(heap) + 1,
                       len |-> hdr.len + 1, cap |-> newCap]]

\* the tree a header denotes
RECURSIVE resolveSlice(_, _)
resolveSlice(heap, hdr) ==
    [isNil |-> hdr.isNil,
     elems |-> [i \in 1..hdr.len |->
                   LET c == heap[hdr.arr][i] IN
                   [c EXCEPT !.Children = resolveSlice(heap, c.Children)]]]

\* popStack popping only deeper sections: a heading then nests under the
\* preceding heading of its own level
RECURSIVE popStackStrict(_, _, _)
popStackStrict(heap, stack, level) ==
    IF stack # <<>> /\ heap[stack[Len(stack)].arr][stack[Len(stack)].idx].Level > level
    THEN popStackStrict(heap, SubSeq(stack, 1, Len(stack) - 1), level)
    ELSE stack

\* popStack as an if instead of a for: at most one section is popped
popStackOnce(heap, stack, level) ==
    IF stack # <<>> /\ heap[stack[Len(stack)].arr][stack[Len(stack)].idx].Level >= level
    THEN SubSeq(stack, 1, Len(stack) - 1)
    ELSE stack

\* for len(stack) > 0 && stack[len(stack)-1].Level >= section.Level
RECURSIVE popStack(_, _, _)
popStack(heap, stack, level) ==
    IF stack # <<>> /\ heap[stack[Len(stack)].arr][stack[Len(stack)].idx].Level >= level
    THEN popStack(heap, SubSeq(stack, 1, Len(stack) - 1), level)
    ELSE stack

\* buildStep with parent a copy of the stack top instead of the pointer:
\* the child is appended to the copy's Children
buildStepCopyParent(st, section) ==
    LET stack      == popStack(st.heap, st.stack, section.Level)
        newSection == [section EXCEPT !.Children = EmptyHdr]
    IN IF stack = <<>>
       THEN LET a == appendSection(st.heap, st.result, newSection) IN
            [heap   |-> a.heap,
             result |-> a.hdr,
             stack  |-> <<[arr |-> a.hdr.arr, idx |-> a.hdr.len]>>]
       ELSE LET parent == stack[Len(stack)]
                a      == appendSection(st.heap,
                              st.heap[parent.arr][parent.idx].Children, newSection)
            IN [heap   |-> a.heap,
                result |-> st.result,
                stack  |-> Append(stack, [arr |-> a.hdr.arr, idx |-> a.hdr.len])]

\* one iteration of the loop of buildHierarchy
buildStep(st, section) ==
    LET stack      == popStack(st.heap, st.stack, section.Level)
        newSection == [section EXCEPT !.Children = EmptyHdr]
    IN IF stack = <<>>
       THEN LET a == appendSection(st.heap, st.result, newSection) IN
            [heap   |-> a.heap,
             result |-> a.hdr,
             stack  |-> <<[arr |-> a.hdr.arr, idx |-> a.hdr.len]>>]
       ELSE LET parent == stack[Len(stack)]
                a      == appendSection(st.heap,
                              st.heap[parent.arr][parent.idx].Children, newSection)
            IN [heap   |-> [a.heap EXCEPT ![parent.arr][parent.idx].Children = a.hdr],
                result |-> st.result,
                stack  |-> Append(stack, [arr |-> a.hdr.arr, idx |-> a.hdr.len])]

RECURSIVE buildLoop(_, _, _)
buildLoop(st, secs, i) ==
    IF i > Len(secs) THEN st ELSE buildLoop(buildStep(st, secs[i]), secs, i + 1)

\* Parser.buildHierarchy
buildHierarchy(sections) ==
    IF Len(sections.elems) = 0 THEN sections
    ELSE LET st == buildLoop([heap |-> <<>>, result |-> NilHdr, stack |-> <<>>],
                             sections.elems, 1)
         IN resolveSlice(st.heap, st.result)

\* ParseStructure counting the characters of the lines without their
\* newlines
ParseStructureLineChars(bytes, t) ==
    [FilePath     |-> "",
     TotalChars   |-> Len(bytes) - CountNL(bytes),
     TotalLines   |-> CountNL(bytes) + 1,
     Structure    |-> buildHierarchy(
                          calculateSectionBoundaries(extractSections(bytes), bytes)),
     LastModified |-> t]

\* ParseStructure taking the number of newlines for the number of lines
ParseStructureNewlines(bytes, t) ==
    [FilePath     |-> "",
     TotalChars   |-> Len(bytes),
     TotalLines   |-> CountNL(bytes),
     Structure    |-> buildHierarchy(
                          calculateSectionBoundaries(extractSections(bytes), bytes)),
     LastModified |-> t]

\* Parser.ParseStructure; t is time.Now()
ParseStructure(bytes, t) ==
    [FilePath     |-> "",
     TotalChars   |-> Len(bytes),
     TotalLines   |-> CountNL(bytes) + 1,
     Structure    |-> buildHierarchy(
                          calculateSectionBoundaries(extractSections(bytes), bytes)),
     LastModified |-> t]

\* Parser.flattenSections
RECURSIVE flattenSections(_)
flattenSections(sections) ==
    LET RECURSIVE Flat(_)
        Flat(es) == IF es = <<>> THEN <<>>
                    ELSE <<Head(es)>> \o flattenSections(Head(es).Children)
                         \o Flat(Tail(es))
    IN Flat(sections.elems)

Range(f) == { f[i] : i \in DOMAIN f }

---------------------------------------------------------------------------
(* ParseSpec: ParseStructure applied to every bounded document *)

\* an ATX heading line
H(n, title) == [i \in 1..n |-> "#"] \o <<" ">> \o title

LineSet ==
    { <<>>, <<"t">>, H(1, <<"A">>), H(2, <<"A">>), H(2, <<"B">>), H(3, <<"C">>) }

RECURSIVE LinesUpTo(_)
LinesUpTo(n) ==
    IF n = 0 THEN { <<>> }
    ELSE LET shorter == LinesUpTo(n - 1) IN
         shorter \cup { Append(ls, l) : ls \in { x \in shorter : Len(x) = n - 1 },
                                        l \in LineSet }

\* six headings of levels 1 to 6, one per line
ChainDoc ==
    Join([n \in 1..6 |-> H(n, <<"A">>)])

\* "# A\n\n## B\n\ntext\n\n## C\n"
ScenarioDoc ==
    Join(<< H(1, <<"A">>), <<>>, H(2, <<"B">>), <<>>, <<"t", "e", "x", "t">>,
            <<>>, H(2, <<"C">>), <<>> >>)

\* "#t\nt\n": a line that opens with '#' and is no heading
PlainDoc == <<"#", "t", NL, "t", NL>>

\* a top-level section with four children, three of which have a child
WideDoc ==
    Join(<< H(1, <<"A">>), H(2, <<"A">>), H(3, <<"C">>), H(2, <<"B">>),
            H(3, <<"C">>), H(2, <<"A">>), H(3, <<"C">>), H(2, <<"B">>) >>)

SampleDocs == { ChainDoc, ScenarioDoc, PlainDoc, WideDoc }

ParseDocs == { Join(ls) : ls \in LinesUpTo(MaxLines) } \cup SampleDocs

CacheIdle ==
    /\ structures = <<>>
    /\ maxSize = 0
    /\ ttl = 0
    /\ now = 0
    /\ fs = <<>>
    /\ fsOps = 0
    /\ ret = <<>>

ConcIdle ==
    /\ mu = <<>>
    /\ pc = <<>>
    /\ arg = <<>>
    /\ swept = {}

ParseIdle ==
    /\ content = <<>>
    /\ parsed = <<>>
    /\ sectionContent = <<>>

ParseInit ==
    /\ content \in ParseDocs
    /\ parsed = <<>>
    /\ sectionContent = <<>>
    /\ CacheIdle
    /\ ConcIdle

\* a caller runs Parser.ParseStructure on the content
Parse ==
    /\ parsed = <<>>
    /\ parsed' = <<ParseStructure(content, now)>>
    /\ UNCHANGED <<content, sectionContent, cacheVars, concVars>>

ParseNext == Parse

ParseSpec == ParseInit /\ [][ParseNext]_vars

---------------------------------------------------------------------------
(* Claims on the section tree *)

FlatSections(bytes) ==
    calculateSectionBoundaries(extractSections(bytes), bytes).elems

\* the tree in depth-first order, each section with the position of its
\* parent in that order (0 for a top-level section)
RECURSIVE Preorder(_, _, _)
Preorder(es, parent, base) ==
    IF es = <<>> THEN <<>>
    ELSE LET me   == base + 1
             kids == Preorder(Head(es).Children.elems, me, me)
         IN <<[sec |-> Head(es), parent |-> parent]>> \o kids
            \o Preorder(Tail(es), parent, me + Len(kids))

\* the nearest preceding heading of a strictly smaller level, 0 if none
NearestShallower(flat, i) ==
    LET c == { j \in 1..(i - 1) : flat[j].Level < flat[i].Level } IN
    IF c = {} THEN 0 ELSE CHOOSE j \in c : \A k \in c : k <= j

\* C11: the tree lists the headings in document order, and the parent of
\* each section is the nearest preceding heading of a strictly smaller
\* level, a section without one being top-level; six headings of levels 1
\* to 6 form one chain six deep.
C11_ParentIsNearestShallower ==
    parsed # <<>> =>
        LET flat == FlatSections(content)
            pre  == Preorder(parsed[1].Structure.elems, 0, 0)
        IN /\ Len(pre) = Len(flat)
           /\ \A i \in 1..Len(pre) :
                 /\ pre[i].sec.StartLine = flat[i].StartLine
                 /\ pre[i].sec.Level = flat[i].Level
                 /\ pre[i].sec.Title = flat[i].Title
                 /\ pre[i].parent = NearestShallower(flat, i)
           /\ content = ChainDoc =>
                 /\ Len(pre) = 6
                 /\ \A i \in 1..6 : pre[i].sec.Level = i /\ pre[i].parent = i - 1

\* C11 witness: the six-level chain has been extracted into one top-level
\* section with five nested descendants
C11_Witness ==
    /\ parsed # <<>>
    /\ content = ChainDoc
    /\ Len(parsed[1].Structure.elems) = 1
    /\ Len(flattenSections(parsed[1].Structure)) = 6

\* the extracted tree of ScenarioDoc: A on line 1 with the children B on
\* line 3 and C on line 7, and the three end lines
ScenarioTree(endA, endB, endC) ==
    LET tree == parsed[1].Structure.elems IN
    /\ Len(tree) = 1
    /\ tree[1].Title = <<"A">> /\ tree[1].Level = 1 /\ tree[1].StartLine = 1
    /\ Len(tree[1].Children.elems) = 2
    /\ LET b == tree[1].Children.elems[1]
           c == tree[1].Children.elems[2]
       IN /\ b.Title = <<"B">> /\ b.Level = 2 /\ b.StartLine = 3
          /\ c.Title = <<"C">> /\ c.Level = 2 /\ c.StartLine = 7
          /\ Len(b.Children.elems) = 0 /\ Len(c.Children.elems) = 0
          /\ tree[1].EndLine = endA /\ b.EndLine = endB /\ c.EndLine = endC

\* C12 (amended): for "# A\n\n## B\n\ntext\n\n## C\n" extraction yields one
\* top-level section A with exactly the children B and C, and A.EndLine = 8,
\* B.EndLine = 6, C.EndLine = 8: the text after the last newline is an
\* eighth line, and B runs to the line before C.
C12_ScenarioEndLines ==
    (parsed # <<>> /\ content = ScenarioDoc) => ScenarioTree(8, 6, 8)

\* C12 as stated: A.EndLine = 7, B.EndLine = 4, C.EndLine = 7
C12_AsStated ==
    (parsed # <<>> /\ content = ScenarioDoc) => ScenarioTree(7, 4, 7)

\* C12 witness: the scenario document has been extracted
C12_Witness ==
    /\ parsed # <<>>
    /\ content = ScenarioDoc
    /\ parsed[1].TotalLines = 8
    /\ Len(parsed[1].Structure.elems) = 1

\* C19: within a document the ID depends on title and level only: sections
\* of equal title and level have equal IDs, sections of equal title and
\* different levels have different IDs; and the IDs of one title at the
\* levels 1 to 6 are pairwise different.
C19_IdFromTitleAndLevel ==
    /\ parsed # <<>> =>
          LET all == flattenSections(parsed[1].Structure) IN
          \A i, j \in 1..Len(all) :
              all[i].Title = all[j].Title =>
                  (all[i].ID = all[j].ID <=> all[i].Level = all[j].Level)
    /\ \A title \in { <<"A">>, <<"A", "1">>, <<>> } :
          \A l1, l2 \in 1..6 :
              l1 # l2 => generateSectionID(l1, title) # generateSectionID(l2, title)

\* C19 witness: an extracted document with two sections of one title and
\* level, and a third of that title at another level
C19_Witness ==
    /\ parsed # <<>>
    /\ LET all == flattenSections(parsed[1].Structure) IN
       \E i, j, k \in 1..Len(all) :
           /\ i < j
           /\ all[i].Title = all[j].Title /\ all[j].Title = all[k].Title
           /\ all[i].Level = all[j].Level /\ all[i].ID = all[j].ID
           /\ all[k].Level # all[i].Level /\ all[k].ID # all[i].ID

\* no line of the document is a heading
Headingless(bytes) ==
    \A i \in 1..Len(Split(bytes)) : ~IsHeading(Split(bytes)[i])

\* C20: for a document without headings, empty content included,
\* ParseStructure returns a structure with zero sections and TotalChars
\* equal to the byte length of the content.
C20_HeadinglessParses ==
    (parsed # <<>> /\ Headingless(content)) =>
        /\ Len(parsed[1].Structure.elems) = 0
        /\ parsed[1].TotalChars = Len(content)

\* C20 witness: a headingless document of several lines, one of which opens
\* with '#', has been extracted
C20_Witness ==
    /\ parsed # <<>>
    /\ content = PlainDoc
    /\ Headingless(content)
    /\ parsed[1].TotalChars = 5
    /\ parsed[1].Structure.elems = <<>>

\* the positions of the newline characters of the content
Newlines(bytes) == { i \in 1..Len(bytes) : bytes[i] = NL }

\* C21: TotalLines is the number of newline characters of the content plus
\* one; for empty content TotalLines is 1 and TotalChars is 0.
C21_TotalLines ==
    parsed # <<>> =>
        /\ parsed[1].TotalLines = Cardinality(Newlines(content)) + 1
        /\ content = <<>> => (parsed[1].TotalLines = 1 /\ parsed[1].TotalChars = 0)

\* C21 witness: a document that ends with a newline and holds two or more
\* has been extracted
C21_Witness ==
    /\ parsed # <<>>
    /\ content # <<>>
    /\ content[Len(content)] = NL
    /\ Cardinality(Newlines(content)) >= 2
    /\ parsed[1].TotalLines >= 3

\* C29: in the extracted tree the end line of each section is the start
\* line of the first later heading of a level not greater than its own,
\* minus one, or TotalLines when there is none; LineCount is
\* EndLine - StartLine + 1.
C29_EndLineRule ==
    parsed # <<>> =>
        LET all == flattenSections(parsed[1].Structure) IN
        \A i \in 1..Len(all) :
            LET later == { j \in (i + 1)..Len(all) : all[j].Level <= all[i].Level }
                first == CHOOSE j \in later : \A k \in later : j <= k
            IN /\ all[i].EndLine = IF later = {} THEN parsed[1].TotalLines
                                   ELSE all[first].StartLine - 1
               /\ all[i].LineCount = all[i].EndLine - all[i].StartLine + 1

\* C29 witness: an extracted document in which one section ends before a
\* later heading that is not the next one, and another on the last line
C29_Witness ==
    /\ parsed # <<>>
    /\ LET all == flattenSections(parsed[1].Structure) IN
       /\ \E i, j \in 1..Len(all) :
              /\ j > i + 1
              /\ all[i].EndLine = all[j].StartLine - 1
              /\ all[i].LineCount > 2
       /\ \E i \in 1..Len(all) : all[i].EndLine = parsed[1].TotalLines

\* C30: the depth-first flattening of the tree buildHierarchy returns is
\* the list of sections it was given, in the same order, none lost and
\* none twice.
C30_TreeKeepsSections ==
    parsed # <<>> =>
        LET flat == FlatSections(content)
            all  == flattenSections(parsed[1].Structure)
        IN /\ Len(all) = Len(flat)
           /\ \A i \in 1..Len(all) :
                 [all[i] EXCEPT !.Children = NilSlice]
                     = [flat[i] EXCEPT !.Children = NilSlice]

\* C30 witness: an extracted tree in which a section got a second child
\* after its first child had got a child of its own
C30_Witness ==
    /\ parsed # <<>>
    /\ \E i \in 1..Len(parsed[1].Structure.elems) :
           LET s == parsed[1].Structure.elems[i] IN
           /\ Len(s.Children.elems) >= 2
           /\ Len(s.Children.elems[1].Children.elems) >= 1

---------------------------------------------------------------------------
(* Section retrieval *)

\* findSection falling back to the first section when no ID matches
findSectionOrFirst(sections, sectionID) ==
    LET flat  == flattenSections(sections)
        match == { i \in 1..Len(flat) : flat[i].ID = sectionID }
    IN IF flat = <<>> THEN <<>>
       ELSE IF match = {} THEN <<flat[1]>>
       ELSE <<flat[CHOOSE i \in match : \A k \in match : i <= k]>>

\* Parser.findSection: depth-first, the first section that carries the ID;
\* <<>> is nil
RECURSIVE findSection(_, _)
findSection(sections, sectionID) ==
    LET RECURSIVE Find(_)
        Find(es) ==
            IF es = <<>> THEN <<>>
            ELSE IF Head(es).ID = sectionID THEN <<Head(es)>>
            ELSE LET found == findSection(Head(es).Children, sectionID) IN
                 IF found # <<>> THEN found ELSE Find(Tail(es))
    IN Find(sections.elems)

\* one loop of findSectionEnd: the first section after the one carrying the
\* target's ID whose level is deeper (first loop) or not deeper (second
\* loop) decides; <<>> when the loop falls through
RECURSIVE scanSectionEnd(_, _, _, _, _)
scanSectionEnd(sections, target, i, found, deeper) ==
    IF i > Len(sections) THEN <<>>
    ELSE IF found /\ ( IF deeper THEN sections[i].Level > target.Level
                                 ELSE sections[i].Level <= target.Level )
    THEN <<sections[i].StartLine - 1>>
    ELSE scanSectionEnd(sections, target, i + 1,
                        found \/ sections[i].ID = target.ID, deeper)

\* findSectionEnd without the search for a child
findSectionEndOwn(sections, target) == target.EndLine

\* Parser.findSectionEnd
findSectionEnd(sections, target) ==
    LET child == scanSectionEnd(sections, target, 1, FALSE, TRUE)
        next  == scanSectionEnd(sections, target, 1, FALSE, FALSE)
    IN IF child # <<>> THEN child[1]
       ELSE IF next # <<>> THEN next[1]
       ELSE target.EndLine

\* sectionEndLine ignoring includeChildren
sectionEndLineNoChildren(structure, section, includeChildren) ==
    findSectionEnd(flattenSections(structure.Structure), section)

\* GetSectionContent: the end line of the slice, before it is clamped
sectionEndLine(structure, section, includeChildren) ==
    IF includeChildren THEN section.EndLine
    ELSE findSectionEnd(flattenSections(structure.Structure), section)

\* Parser.GetSectionContent; t is time.Now()
GetSectionContentOp(bytes, sectionID, includeChildren, t) ==
    LET structure == ParseStructure(bytes, t)
        found     == findSection(structure.Structure, sectionID)
    IN IF found = <<>>
       THEN [err |-> "section not found", value |-> <<>>]
       ELSE LET section == found[1]
                lines   == Split(bytes)
                end     == sectionEndLine(structure, section, includeChildren)
                endLine == Min(end, Len(lines))
                inRange == section.StartLine > 0 /\ section.StartLine <= Len(lines)
            IN IF inRange /\ endLine < section.StartLine - 1
               THEN [err |-> "panic", value |-> <<>>]
               ELSE [err   |-> "",
                     value |-> <<[ID      |-> section.ID,
                                  Title   |-> section.Title,
                                  Content |-> IF inRange
                                              THEN Join(SubSeq(lines, section.StartLine,
                                                               endLine))
                                              ELSE <<>>,
                                  Format  |-> "markdown",
                                  IncludeChildren |-> includeChildren]>>]

---------------------------------------------------------------------------
(* SectionSpec: GetSectionContent called on every bounded document *)

\* the empty string as an ID
EmptyID == [prefix |-> "", sum |-> <<>>]

\* the IDs of the headings of LineSet, one ID no heading has, and ""
SectionIDs ==
    { generateSectionID(LeadingHashes(l),
                        TrimSpace(SubSeq(l, LeadingHashes(l) + 1, Len(l)))) :
        l \in { x \in LineSet : IsHeading(x) } }
    \cup { generateSectionID(1, <<"Z">>), EmptyID }

SectionInit ==
    /\ content \in ParseDocs
    /\ parsed = <<>>
    /\ sectionContent = <<>>
    /\ CacheIdle
    /\ ConcIdle

\* a caller that has listed the sections runs Parser.GetSectionContent on
\* the same content
GetSectionContent(sectionID, includeChildren) ==
    /\ parsed # <<>>
    /\ sectionContent = <<>>
    /\ sectionContent' =
           [sectionID       |-> sectionID,
            includeChildren |-> includeChildren,
            result |-> GetSectionContentOp(content, sectionID, includeChildren, now)]
    /\ UNCHANGED <<content, parsed, cacheVars, concVars>>

SectionNext ==
    \/ Parse
    \/ \E sectionID \in SectionIDs, includeChildren \in BOOLEAN :
        GetSectionContent(sectionID, includeChildren)

SectionSpec == SectionInit /\ [][SectionNext]_vars

---------------------------------------------------------------------------
(* Claims on section retrieval *)

\* the sections of the extracted tree, depth-first
Listed == flattenSections(parsed[1].Structure)

\* the listed sections that carry the ID of the call
Carriers == { i \in 1..Len(Listed) : Listed[i].ID = sectionContent.sectionID }

\* the section the call resolves to: the first listed one carrying the ID
Resolved == Listed[CHOOSE i \in Carriers : \A k \in Carriers : i <= k]

\* lines a..b of the content, joined by newlines
LinesOf(a, b) == Join(SubSeq(Split(content), a, b))

\* a call has been made with this includeChildren and some section carries
\* its ID
CalledOnSection(includeChildren) ==
    /\ sectionContent # <<>>
    /\ sectionContent.includeChildren = includeChildren
    /\ Carriers # {}

\* C13: without children included, a section that has no child yields the
\* lines from its start line through its own end line.
C13_ChildlessOwnSpan ==
    (CalledOnSection(FALSE) /\ Len(Resolved.Children.elems) = 0) =>
        /\ sectionContent.result.err = ""
        /\ sectionContent.result.value[1].Content =
               LinesOf(Resolved.StartLine, Resolved.EndLine)

C16_UnknownIdNotFound ==
    (sectionContent # <<>> /\ Carriers = {}) =>
        /\ sectionContent.result.err = "section not found"
        /\ sectionContent.result.value = <<>>

\* C16 witness: the empty ID has been looked up in a document that has
\* sections
C16_Witness ==
    /\ sectionContent # <<>>
    /\ sectionContent.sectionID = EmptyID
    /\ Len(Listed) > 0
    /\ sectionContent.result.err = "section not found"

\* C17: every listed section is retrieved by its ID: a call with children
\* included returns the title and the lines StartLine..EndLine of each
\* listed section that carries the ID.
C17_EverySectionRetrievable ==
    (sectionContent # <<>> /\ sectionContent.includeChildren) =>
        \A i \in Carriers :
            /\ sectionContent.result.err = ""
            /\ sectionContent.result.value[1].Title = Listed[i].Title
            /\ sectionContent.result.value[1].Content =
                   LinesOf(Listed[i].StartLine, Listed[i].EndLine)

---------------------------------------------------------------------------
(* The file system and the clock *)

Paths     == {"a.md", "b.md", "c.md"}
CallPaths == Paths \cup {""}        \* arguments a caller may pass
FsPaths   == {"a.md"}               \* the files that change in Spec

DocA  == Join(<<H(1, <<"A">>)>>)
DocAB == Join(<<H(1, <<"A">>), H(2, <<"B">>)>>)
CacheDocs == {DocA, DocAB}

NoFile == [exists |-> FALSE, readable |-> TRUE, mtime |-> 0, data |-> <<>>]

\* os.Stat
Stat(path) ==
    IF path \in Paths /\ fs[path].exists
    THEN [ok |-> TRUE,  ModTime |-> fs[path].mtime]
    ELSE [ok |-> FALSE, ModTime |-> 0]

\* os.ReadFile
ReadFile(path) ==
    IF path \in Paths /\ fs[path].exists /\ fs[path].readable
    THEN [ok |-> TRUE,  data |-> fs[path].data]
    ELSE [ok |-> FALSE, data |-> <<>>]

\* md5.Sum printed with %x; the digest is kept as its input
md5(data) == [md5 |-> data]

\* ParseStructure of the documents the files hold, computed once
Extracted == [d \in CacheDocs \cup {<<>>} |-> ParseStructure(d, 0)]

\* what GetDocumentStructure and RefreshStructure make of the bytes read:
\* ParseStructure, then FilePath and (when os.Stat succeeds) LastModified
ParseFile(path, data) ==
    LET stat == Stat(path) IN
    [Extracted[data] EXCEPT
        !.FilePath     = path,
        !.LastModified = IF stat.ok THEN stat.ModTime ELSE now]

---------------------------------------------------------------------------
(* Cache (internal/core/cache.go), each method as a function of the table *)

DefaultMaxSize == 100
DefaultTTL     == 30

\* NewCache
NewCache(maxSizeArg, ttlArg) ==
    [structures |-> <<>>,
     maxSize    |-> IF maxSizeArg <= 0 THEN DefaultMaxSize ELSE maxSizeArg,
     ttl        |-> IF ttlArg <= 0 THEN DefaultTTL ELSE ttlArg]

\* Cache.calculateFileHash
calculateFileHash(path) ==
    LET r == ReadFile(path) IN [ok |-> r.ok, hash |-> md5(r.data)]

\* isFileUnchanged without the modification-time test
isFileUnchangedHashOnly(path, entry) ==
    LET stat == Stat(path)
        h    == calculateFileHash(path)
    IN IF ~stat.ok THEN [ok |-> FALSE, reads |-> <<"stat">>]
       ELSE IF ~h.ok THEN [ok |-> FALSE, reads |-> <<"stat", "read">>]
       ELSE [ok |-> h.hash = entry.FileHash, reads |-> <<"stat", "read">>]

\* isFileUnchanged taking a failed os.Stat or os.ReadFile for "unchanged"
isFileUnchangedFailOpen(path, entry) ==
    LET stat == Stat(path)
        h    == calculateFileHash(path)
    IN IF ~stat.ok THEN [ok |-> TRUE, reads |-> <<"stat">>]
       ELSE IF stat.ModTime # entry.FileModTime
            THEN [ok |-> FALSE, reads |-> <<"stat">>]
       ELSE IF ~h.ok THEN [ok |-> TRUE, reads |-> <<"stat", "read">>]
       ELSE [ok |-> h.hash = entry.FileHash, reads |-> <<"stat", "read">>]

\* Cache.isFileUnchanged; reads lists the file-system calls it made
isFileUnchanged(path, entry) ==
    LET stat == Stat(path)
        h    == calculateFileHash(path)
    IN IF ~stat.ok THEN [ok |-> FALSE, reads |-> <<"stat">>]
       ELSE IF stat.ModTime # entry.FileModTime
            THEN [ok |-> FALSE, reads |-> <<"stat">>]
       ELSE IF ~h.ok THEN [ok |-> FALSE, reads |-> <<"stat", "read">>]
       ELSE [ok |-> h.hash = entry.FileHash, reads |-> <<"stat", "read">>]

\* GetStructure leaving LastAccessed as it was on a hit
GetStructureOpNoTouch(S, path) ==
    LET miss(reads) == [structures |-> S, ok |-> FALSE, value |-> <<>>,
                        reads |-> reads]
    IN IF path \notin DOMAIN S THEN miss(<<>>)
       ELSE IF now - S[path].LastAccessed > ttl THEN miss(<<>>)
       ELSE LET u == isFileUnchanged(path, S[path]) IN
            IF ~u.ok THEN miss(u.reads)
            ELSE [structures |-> S, ok |-> TRUE,
                  value |-> <<S[path].Structure>>, reads |-> u.reads]

\* Cache.GetStructure on table S
GetStructureOp(S, path) ==
    LET miss(reads) == [structures |-> S, ok |-> FALSE, value |-> <<>>,
                        reads |-> reads]
    IN IF path \notin DOMAIN S THEN miss(<<>>)
       ELSE IF now - S[path].LastAccessed > ttl THEN miss(<<>>)
       ELSE LET u == isFileUnchanged(path, S[path]) IN
            IF ~u.ok THEN miss(u.reads)
            ELSE [structures |-> [S EXCEPT ![path].LastAccessed = now],
                  ok         |-> TRUE,
                  value      |-> <<S[path].Structure>>,
                  reads      |-> u.reads]

\* evictLRU ending with whatever key the range produced first
VictimsAny(S) == IF DOMAIN S = {} THEN {""} ELSE DOMAIN S

\* the keys evictLRU may end up with: the map is ranged over in an
\* unspecified order and the first entry with the oldest LastAccessed wins
Victims(S) ==
    IF DOMAIN S = {} THEN {""}
    ELSE { k \in DOMAIN S :
             \A r \in DOMAIN S : S[k].LastAccessed <= S[r].LastAccessed }

\* Cache.evictLRU, oldestKey being the key the loop ended with
evictLRU(S, oldestKey) ==
    IF DOMAIN S = {} THEN S
    ELSE IF oldestKey # "" THEN [k \in DOMAIN S \ {oldestKey} |-> S[k]]
    ELSE S

\* the capacity test letting the table grow one past maxSize
NeedsEvictionLate(S) == Cardinality(DOMAIN S) > maxSize

\* the capacity test of SetStructure
NeedsEviction(S) == Cardinality(DOMAIN S) >= maxSize

\* SetStructure leaving LastAccessed at the zero time
SetStructureOpNoTime(S, path, structure, oldestKey) ==
    LET stat == Stat(path)
        h    == calculateFileHash(path)
        S1   == IF NeedsEviction(S) THEN evictLRU(S, oldestKey) ELSE S
        entry == [Structure    |-> structure,
                  LastAccessed |-> 0 - DefaultTTL,
                  FileModTime  |-> stat.ModTime,
                  FileHash     |-> h.hash]
    IN IF ~stat.ok \/ ~h.ok
       THEN [structures |-> S, stored |-> FALSE, evicted |-> ""]
       ELSE [structures |-> [k \in DOMAIN S1 \cup {path} |->
                                IF k = path THEN entry ELSE S1[k]],
             stored     |-> TRUE,
             evicted    |-> IF DOMAIN S1 # DOMAIN S THEN oldestKey ELSE ""]

\* Cache.SetStructure on table S; evicted is the key evictLRU deleted, if any
SetStructureOp(S, path, structure, oldestKey) ==
    LET stat == Stat(path)
        h    == calculateFileHash(path)
        S1   == IF NeedsEviction(S) THEN evictLRU(S, oldestKey) ELSE S
        entry == [Structure    |-> structure,
                  LastAccessed |-> now,
                  FileModTime  |-> stat.ModTime,
                  FileHash     |-> h.hash]
    IN IF ~stat.ok \/ ~h.ok
       THEN [structures |-> S, stored |-> FALSE, evicted |-> ""]
       ELSE [structures |-> [k \in DOMAIN S1 \cup {path} |->
                                IF k = path THEN entry ELSE S1[k]],
             stored     |-> TRUE,
             evicted    |-> IF DOMAIN S1 # DOMAIN S THEN oldestKey ELSE ""]

\* Cache.InvalidateStructure on table S
InvalidateOp(S, path) == [k \in DOMAIN S \ {path} |-> S[k]]

\* the sweep with the operands of Sub swapped: entry.LastAccessed.Sub(now)
SweepOpSwapped(S, t, life) ==
    [k \in { q \in DOMAIN S : ~(S[q].LastAccessed - t > life) } |-> S[k]]

\* one pass of the loop of Cache.cleanupExpired on table S at time t
SweepOp(S, t, life) ==
    [k \in { q \in DOMAIN S : ~(t - S[q].LastAccessed > life) } |-> S[k]]

\* Cache.RefreshStructure on table S
RefreshStructureOp(S, path, oldestKey) ==
    LET S0   == InvalidateOp(S, path)
        r    == ReadFile(path)
        st   == ParseFile(path, r.data)
        set  == SetStructureOp(S0, path, st, oldestKey)
    IN IF ~r.ok
       THEN [structures |-> S0, err |-> TRUE, stored |-> FALSE, evicted |-> ""]
       ELSE [structures |-> set.structures, err |-> FALSE,
             stored |-> set.stored, evicted |-> set.evicted]

---------------------------------------------------------------------------
(* StructureManager and the tool handlers *)

\* StructureManager.GetDocumentStructure on table S.  cached tells whether
\* the *DocumentStructure it returns is the one the table holds.
GetDocumentStructureOp(S, path, oldestKey) ==
    LET g    == GetStructureOp(S, path)
        r    == ReadFile(path)
        st   == ParseFile(path, r.data)
        set  == SetStructureOp(g.structures, path, st, oldestKey)
    IN IF g.ok
       THEN [structures |-> g.structures, err |-> FALSE, value |-> g.value,
             hit |-> TRUE, stored |-> FALSE, cached |-> TRUE, evicted |-> ""]
       ELSE IF ~r.ok
       THEN [structures |-> g.structures, err |-> TRUE, value |-> <<>>,
             hit |-> FALSE, stored |-> FALSE, cached |-> FALSE, evicted |-> ""]
       ELSE [structures |-> set.structures, err |-> FALSE, value |-> <<st>>,
             hit |-> FALSE, stored |-> set.stored, cached |-> set.stored,
             evicted |-> set.evicted]

\* filterByDepth keeping only the sections above the maximum depth
RECURSIVE filterByDepthStrict(_, _)
filterByDepthStrict(sections, maxDepth) ==
    IF maxDepth <= 0 THEN sections
    ELSE LET RECURSIVE Keep(_)
             Keep(es) ==
                 IF es = <<>> THEN <<>>
                 ELSE (IF Head(es).Level < maxDepth
                       THEN <<[Head(es) EXCEPT
                                 !.Children = filterByDepthStrict(@, maxDepth)]>>
                       ELSE <<>>)
                      \o Keep(Tail(es))
             filtered == Keep(sections.elems)
         IN [isNil |-> filtered = <<>>, elems |-> filtered]

\* ToolHandler.filterByDepth
RECURSIVE filterByDepth(_, _)
filterByDepth(sections, maxDepth) ==
    IF maxDepth <= 0 THEN sections
    ELSE LET RECURSIVE Keep(_)
             Keep(es) ==
                 IF es = <<>> THEN <<>>
                 ELSE (IF Head(es).Level <= maxDepth
                       THEN <<[Head(es) EXCEPT
                                 !.Children = filterByDepth(@, maxDepth)]>>
                       ELSE <<>>)
                      \o Keep(Tail(es))
             filtered == Keep(sections.elems)
         IN [isNil |-> filtered = <<>>, elems |-> filtered]

\* the assignment structure.Structure = ... of handleGetMarkdownStructure:
\* it writes through the pointer GetDocumentStructure returned, which is the
\* table's own entry when the result is cached
AssignStructure(S, path, cached, sections) ==
    IF cached /\ path \in DOMAIN S
    THEN [S EXCEPT ![path].Structure.Structure = sections]
    ELSE S

\* the max_depth arguments of a request: absent, or a number
DepthArgs == { <<>>, <<1>> }

---------------------------------------------------------------------------
(* Spec: the cache, the files and the handlers; one step per call *)

SetValues == { [ParseStructure(DocA, 0) EXCEPT !.FilePath = "x.md"] }

\* the record of a call: ok is the call's success (a hit, for the calls that
\* look up), stored tells that it put a new entry under path, evicted names
\* the key evictLRU deleted for it, at is the time of a storing call
Called(op, path, ok, stored, value, reads, evicted) ==
    ret' = [op |-> op, path |-> path, ok |-> ok,
            stored |-> stored, value |-> value, reads |-> reads,
            evicted |-> evicted, at |-> IF stored THEN now ELSE 0]

Init ==
    /\ LET c == NewCache(MaxSizeArg, TtlArg) IN
          /\ structures = c.structures
          /\ maxSize = c.maxSize
          /\ ttl = c.ttl
    /\ now = 0
    /\ fs = [p \in Paths |->
                [exists |-> TRUE, readable |-> TRUE, mtime |-> 0, data |-> DocAB]]
    /\ fsOps = 0
    /\ ret = [op |-> "NewCache", path |-> "", ok |-> FALSE,
              stored |-> FALSE, value |-> <<>>, reads |-> <<>>,
              evicted |-> "", at |-> 0]
    /\ ParseIdle
    /\ ConcIdle

\* time passes
Tick ==
    /\ now < MaxClock
    /\ now' = now + 1
    /\ UNCHANGED <<structures, maxSize, ttl, fs, fsOps, ret, parseVars, concVars>>

\* a file is written: new data, and a modification time that is the clock's
\* or (coarse timestamps, utimes) the one it had
WriteFile(path, data, keepTime) ==
    /\ fsOps < MaxFsOps
    /\ fs' = [fs EXCEPT ![path] =
                 [exists |-> TRUE, readable |-> TRUE, data |-> data,
                  mtime |-> IF keepTime /\ fs[path].exists
                            THEN fs[path].mtime ELSE now]]
    /\ fsOps' = fsOps + 1
    /\ Called("WriteFile", path, TRUE, FALSE, <<>>, <<>>, "")
    /\ UNCHANGED <<structures, maxSize, ttl, now, parseVars, concVars>>

\* a file is deleted
RemoveFile(path) ==
    /\ fsOps < MaxFsOps
    /\ fs[path].exists
    /\ fs' = [fs EXCEPT ![path] = NoFile]
    /\ fsOps' = fsOps + 1
    /\ Called("RemoveFile", path, TRUE, FALSE, <<>>, <<>>, "")
    /\ UNCHANGED <<structures, maxSize, ttl, now, parseVars, concVars>>

\* a file's read permission is taken away or given back
Chmod(path) ==
    /\ fsOps < MaxFsOps
    /\ fs[path].exists
    /\ fs' = [fs EXCEPT ![path].readable = ~@]
    /\ fsOps' = fsOps + 1
    /\ Called("Chmod", path, TRUE, FALSE, <<>>, <<>>, "")
    /\ UNCHANGED <<structures, maxSize, ttl, now, parseVars, concVars>>

\* Cache.GetStructure
GetStructure(path) ==
    LET g == GetStructureOp(structures, path) IN
    /\ structures' = g.structures
    /\ Called("GetStructure", path, g.ok, FALSE, g.value, g.reads, "")
    /\ UNCHANGED <<maxSize, ttl, now, fs, fsOps, parseVars, concVars>>

\* Cache.SetStructure
SetStructure(path, structure) ==
    \E oldestKey \in Victims(structures) :
        LET r == SetStructureOp(structures, path, structure, oldestKey) IN
        /\ structures' = r.structures
        /\ Called("SetStructure", path, r.stored, r.stored, <<structure>>, <<>>,
                  r.evicted)
        /\ UNCHANGED <<maxSize, ttl, now, fs, fsOps, parseVars, concVars>>

\* Cache.InvalidateStructure
InvalidateStructure(path) ==
    /\ structures' = InvalidateOp(structures, path)
    /\ Called("InvalidateStructure", path, TRUE, FALSE, <<>>, <<>>, "")
    /\ UNCHANGED <<maxSize, ttl, now, fs, fsOps, parseVars, concVars>>

\* Cache.Clear
Clear ==
    /\ structures' = <<>>
    /\ Called("Clear", "", TRUE, FALSE, <<>>, <<>>, "")
    /\ UNCHANGED <<maxSize, ttl, now, fs, fsOps, parseVars, concVars>>

\* Cache.RefreshStructure
RefreshStructure(path) ==
    \E oldestKey \in Victims(InvalidateOp(structures, path)) :
        LET r == RefreshStructureOp(structures, path, oldestKey) IN
        /\ structures' = r.structures
        /\ Called("RefreshStructure", path, ~r.err, r.stored, <<>>, <<>>, r.evicted)
        /\ UNCHANGED <<maxSize, ttl, now, fs, fsOps, parseVars, concVars>>

\* one pass of Cache.cleanupExpired, whenever its ticker fires
cleanupExpired ==
    /\ structures' = SweepOp(structures, now, ttl)
    /\ UNCHANGED <<maxSize, ttl, now, fs, fsOps, ret, parseVars, concVars>>

\* StructureManager.GetDocumentStructure, as get_markdown_toc,
\* search_markdown_content and get_markdown_stats call it after
\* ValidatePath; ok tells a cache hit
GetDocumentStructure(path) ==
    \E oldestKey \in Victims(structures) :
        LET d == GetDocumentStructureOp(structures, path, oldestKey) IN
        /\ Stat(path).ok
        /\ structures' = d.structures
        /\ Called("GetDocumentStructure", path, d.hit, d.stored, d.value, <<>>,
                  d.evicted)
        /\ UNCHANGED <<maxSize, ttl, now, fs, fsOps, parseVars, concVars>>

\* ToolHandler.handleGetMarkdownStructure; ok tells a cache hit
handleGetMarkdownStructure(path, depthArg) ==
    \E oldestKey \in Victims(structures) :
        LET d   == GetDocumentStructureOp(structures, path, oldestKey)
            out == IF d.err \/ depthArg = <<>> THEN d.value
                   ELSE <<[d.value[1] EXCEPT
                             !.Structure = filterByDepth(@, depthArg[1])]>>
        IN
        /\ Stat(path).ok
        /\ structures' =
              IF d.err \/ depthArg = <<>> THEN d.structures
              ELSE AssignStructure(d.structures, path, d.cached, out[1].Structure)
        /\ Called("handleGetMarkdownStructure", path, d.hit, d.stored, out, <<>>,
                  d.evicted)
        /\ UNCHANGED <<maxSize, ttl, now, fs, fsOps, parseVars, concVars>>

\* Spec: the files in FsPaths change, and the cache and the handlers are
\* called for them
Next ==
    \/ Tick
    \/ \E p \in FsPaths, d \in CacheDocs, k \in BOOLEAN : WriteFile(p, d, k)
    \/ \E p \in FsPaths : RemoveFile(p)
    \/ \E p \in FsPaths : Chmod(p)
    \/ \E p \in FsPaths : GetStructure(p)
    \/ \E p \in FsPaths, s \in SetValues : SetStructure(p, s)
    \/ \E p \in FsPaths : InvalidateStructure(p)
    \/ Clear
    \/ \E p \in FsPaths : RefreshStructure(p)
    \/ cleanupExpired
    \/ \E p \in FsPaths : GetDocumentStructure(p)
    \/ \E p \in FsPaths, a \in DepthArgs : handleGetMarkdownStructure(p, a)

Spec == Init /\ [][Next]_vars

\* CapacitySpec: the cache is called for more paths than it may hold; the
\* files stay as they are
CapacityNext ==
    \/ Tick
    \/ \E p \in CallPaths : GetStructure(p)
    \/ \E p \in CallPaths, s \in SetValues : SetStructure(p, s)
    \/ \E p \in CallPaths : InvalidateStructure(p)
    \/ Clear
    \/ \E p \in Paths : RefreshStructure(p)
    \/ cleanupExpired

CapacitySpec == Init /\ [][CapacityNext]_vars

---------------------------------------------------------------------------
(* FilterSpec: the CLI command "structure" on every bounded document, with *)
(* every --max-depth; ret holds what it printed                            *)

\* the values of --max-depth (0 when the flag is absent)
MaxDepths == (0 - 1)..3

\* json.Encoder.Encode of a []Section: a nil slice is written as null, any
\* other slice as an array of objects
RECURSIVE Encode(_)
Encode(sections) ==
    IF sections.isNil THEN "null"
    ELSE [i \in 1..Len(sections.elems) |->
            [id       |-> sections.elems[i].ID,
             level    |-> sections.elems[i].Level,
             title    |-> sections.elems[i].Title,
             children |-> Encode(sections.elems[i].Children)]]

\* structureCmd.RunE: parse the file's content, filter when --max-depth is
\* positive, print as JSON
structureCmd(maxDepth) ==
    LET structure == ParseStructure(content, now)
        out == IF maxDepth > 0
               THEN [structure EXCEPT !.Structure = filterByDepth(@, maxDepth)]
               ELSE structure
    IN /\ ret = <<>>
       /\ parsed' = <<structure>>
       /\ ret' = [op |-> "structure", maxDepth |-> maxDepth, value |-> out,
                  json |-> [structure |-> Encode(out.Structure)]]
       /\ UNCHANGED <<content, sectionContent, structures, maxSize, ttl, now,
                      fs, fsOps, concVars>>

FilterNext == \E d \in MaxDepths : structureCmd(d)

FilterSpec == ParseInit /\ [][FilterNext]_vars

\* a null among the children values of an encoded array of sections
RECURSIVE NullChildren(_)
NullChildren(js) ==
    \E i \in 1..Len(js) :
        \/ js[i].children = "null"
        \/ js[i].children # "null" /\ NullChildren(js[i].children)

\* C22: in what is printed, "structure" and every section's "children" are
\* arrays, never null: without headings, for leaf sections, after filtering.
C22_ArraysNeverNull ==
    ret # <<>> =>
        /\ ret.json.structure # "null"
        /\ ~NullChildren(ret.json.structure)

\* the position in the unfiltered depth-first order of the k-th section of
\* level at most d
KeptAt(pre, d, k) ==
    LET keep == { i \in 1..Len(pre) : pre[i].sec.Level <= d } IN
    CHOOSE i \in keep : Cardinality({ j \in keep : j <= i }) = k

\* C23: filtering with max depth d > 0 keeps exactly the sections of level
\* at most d, in document order and each under the parent it had; with
\* d <= 0 the tree is the one extracted.  The MCP handler's filterByDepth,
\* called with any d, gives the same tree.
C23_FilterKeepsUpToDepth ==
    ret # <<>> =>
        LET d    == ret.maxDepth
            orig == Preorder(parsed[1].Structure.elems, 0, 0)
            out  == Preorder(ret.value.Structure.elems, 0, 0)
            keep == { i \in 1..Len(orig) : orig[i].sec.Level <= d }
        IN /\ filterByDepth(parsed[1].Structure, d) .elems
                 = ret.value.Structure.elems
           /\ d <= 0 => ret.value.Structure = parsed[1].Structure
           /\ d > 0 =>
                 /\ Len(out) = Cardinality(keep)
                 /\ \A k \in 1..Len(out) :
                       LET i == KeptAt(orig, d, k) IN
                       /\ out[k].sec.Level <= d
                       /\ [out[k].sec EXCEPT !.Children = NilSlice]
                             = [orig[i].sec EXCEPT !.Children = NilSlice]
                       /\ IF orig[i].parent = 0 THEN out[k].parent = 0
                          ELSE /\ out[k].parent # 0
                               /\ KeptAt(orig, d, out[k].parent) = orig[i].parent

\* C23 witness: --max-depth 2 has dropped a section of level 3 and kept a
\* section of level 2 under its parent
C23_Witness ==
    /\ ret # <<>>
    /\ ret.maxDepth = 2
    /\ \E s \in Range(flattenSections(parsed[1].Structure)) : s.Level = 3
    /\ LET out == Preorder(ret.value.Structure.elems, 0, 0) IN
       \E k \in 1..Len(out) : out[k].sec.Level = 2 /\ out[k].parent # 0

---------------------------------------------------------------------------
(* ServerSpec: the request loop of the MCP server (internal/mcp).  A JSON  *)
(* value is a record tagged t: "absent" for a missing member or an empty   *)
(* raw message, "str" and "num" with the value v, "arr", and "obj" with    *)
(* its members.  ret holds the request decoded last and what was encoded   *)
(* in answer.                                                              *)

ParseError     == -32700
InvalidRequest == -32600
MethodNotFound == -32601
InvalidParams  == -32602
InternalError  == -32603

Absent == [t |-> "absent"]
Str(v) == [t |-> "str", v |-> v]
Num(v) == [t |-> "num", v |-> v]

\* the tools HandleToolCall knows
ToolNames ==
    { "get_markdown_structure", "get_markdown_section",
      "search_markdown_content", "get_markdown_stats", "get_markdown_toc" }

\* the requests a client sends: every combination of version, id, method
\* and params
Requests ==
    LET names  == { Absent, Str(""), Num(7), Str("get_markdown_structure"),
                    Str("get_markdown_toc"), Str("invalid_tool") }
        args   == { Absent, Num(5),
                    [t |-> "obj", file_path |-> Absent],
                    [t |-> "obj", file_path |-> Num(5)],
                    [t |-> "obj", file_path |-> Str("a.md")] }
        params == { Absent, [t |-> "arr"] }
                  \cup { [t |-> "obj", name |-> n, arguments |-> a, uri |-> Absent] :
                           n \in names, a \in args }
                  \cup { [t |-> "obj", name |-> Absent, arguments |-> Absent,
                          uri |-> Str("file:///a.md")] }
    IN [ JSONRPC : {"2.0", "1.0"},
         ID      : { Absent, Num(1) },
         Method  : { "", "initialize", "tools/list", "tools/call",
                     "resources/list", "resources/read", "ping", "bogus" },
         Params  : params ]

\* CreateErrorResponse
CreateErrorResponse(id, code) ==
    [JSONRPC |-> "2.0", ID |-> id, Result |-> Absent, Error |-> <<code>>]

\* CreateSuccessResponse
CreateSuccessResponse(id, result) ==
    [JSONRPC |-> "2.0", ID |-> id, Result |-> result, Error |-> <<>>]

\* ValidateRequest without the test of the method
ValidateRequestVersionOnly(req) == req.JSONRPC = "2.0"

\* ValidateRequest: TRUE when it returns no error
ValidateRequest(req) == req.JSONRPC = "2.0" /\ req.Method # ""

\* ParseToolCallParams: json.Unmarshal into ToolCallParams fails on an empty
\* message, on a value that is no object and on a member of the wrong type;
\* a missing member leaves the zero value
ParseToolCallParams(params) ==
    IF \/ params.t # "obj"
       \/ params.name.t \notin {"absent", "str"}
       \/ params.arguments.t \notin {"absent", "obj"}
    THEN [err |-> TRUE, Name |-> "", Arguments |-> Absent]
    ELSE LET name == IF params.name.t = "str" THEN params.name.v ELSE "" IN
         [err |-> name = "", Name |-> name, Arguments |-> params.arguments]

\* ToolHandler.HandleToolCall.  Every tool handler starts with
\* args["file_path"].(string); done tells how the rest of the handler
\* (ValidatePath, the core call) ended.
HandleToolCall(toolName, arguments, done) ==
    IF toolName \notin ToolNames THEN [IsError |-> TRUE]
    ELSE IF arguments.t # "obj" THEN [IsError |-> TRUE]
    ELSE IF arguments.file_path.t # "str" THEN [IsError |-> TRUE]
    ELSE [IsError |-> ~done]

\* Server.handleRequest; done tells how the file access of the handler ended
handleRequest(req, done) ==
    LET id == req.ID
        tp == ParseToolCallParams(req.Params)
    IN IF ~ValidateRequest(req) THEN CreateErrorResponse(id, InvalidRequest)
       ELSE CASE req.Method = "initialize" ->
                   IF req.Params.t \notin {"absent", "obj"}
                   THEN CreateErrorResponse(id, InvalidParams)
                   ELSE CreateSuccessResponse(id, [IsError |-> FALSE])
              [] req.Method = "tools/list" ->
                   CreateSuccessResponse(id, [IsError |-> FALSE])
              [] req.Method = "tools/call" ->
                   IF tp.err THEN CreateErrorResponse(id, InvalidParams)
                   ELSE CreateSuccessResponse(id,
                            HandleToolCall(tp.Name, tp.Arguments, done))
              [] req.Method = "resources/list" ->
                   IF done THEN CreateSuccessResponse(id, [IsError |-> FALSE])
                   ELSE CreateErrorResponse(id, InternalError)
              [] req.Method = "resources/read" ->
                   IF req.Params.t # "obj" \/ req.Params.uri.t # "str"
                   THEN CreateErrorResponse(id, InvalidParams)
                   ELSE IF done THEN CreateSuccessResponse(id, [IsError |-> FALSE])
                   ELSE CreateErrorResponse(id, InternalError)
              [] req.Method = "ping" ->
                   CreateSuccessResponse(id, [IsError |-> FALSE])
              [] OTHER -> CreateErrorResponse(id, MethodNotFound)

ServerInit == ParseIdle /\ CacheIdle /\ ConcIdle

\* one round of the loop of Server.Run: decode a request, handle it, encode
\* the response
Run(req, done) ==
    /\ ret' = [request |-> req, encoded |-> <<handleRequest(req, done)>>]
    /\ UNCHANGED <<parseVars, structures, maxSize, ttl, now, fs, fsOps, concVars>>

\* a round of Server.Run on input that does not decode: a ParseError
\* response without an id
RunUndecoded ==
    /\ ret' = [request |-> Absent,
               encoded |-> <<CreateErrorResponse(Absent, ParseError)>>]
    /\ UNCHANGED <<parseVars, structures, maxSize, ttl, now, fs, fsOps, concVars>>

ServerNext ==
    \/ \E req \in Requests, done \in BOOLEAN : Run(req, done)
    \/ RunUndecoded

ServerSpec == ServerInit /\ [][ServerNext]_vars

\* the last round decoded a request
Decoded == ret # <<>> /\ ret.request # Absent

\* the last request passes validation and calls a tool
ToolCall ==
    /\ Decoded
    /\ ret.request.JSONRPC = "2.0"
    /\ ret.request.Method = "tools/call"

\* the params of the last request carry a tool name
NamesTool ==
    /\ ret.request.Params.t = "obj"
    /\ ret.request.Params.name.t = "str"
    /\ ret.request.Params.name.v # ""

\* the params of the last request carry a string file_path
HasFilePath ==
    /\ ret.request.Params.t = "obj"
    /\ ret.request.Params.arguments.t = "obj"
    /\ ret.request.Params.arguments.file_path.t = "str"

\* the last response is an error response with this code
Refused(code) ==
    ret.encoded[1].Error = <<code>> /\ ret.encoded[1].Result = Absent

\* the last response is a success carrying a tool result with isError set
ToolError ==
    ret.encoded[1].Error = <<>> /\ ret.encoded[1].Result = [IsError |-> TRUE]

\* the parts of C24 about the response count, the id and the codes -32600
\* and -32601
EnvelopeRules ==
    /\ Len(ret.encoded) = 1
    /\ ret.encoded[1].ID = ret.request.ID
    /\ (ret.request.JSONRPC # "2.0" \/ ret.request.Method = "")
          => Refused(InvalidRequest)
    /\ ( /\ ret.request.JSONRPC = "2.0"
         /\ ret.request.Method \in {"bogus"} )
          => Refused(MethodNotFound)

\* C24 as stated: every decoded request gets one response with its id;
\* -32600 for a wrong version or an empty method, -32601 for an unknown
\* method, -32602 for a tools/call without a tool name, and a success with
\* isError for every tools/call that names an unknown tool or lacks
\* file_path.
C24_AsStated ==
    Decoded =>
        /\ EnvelopeRules
        /\ (ToolCall /\ ~NamesTool) => Refused(InvalidParams)
        /\ ( /\ ToolCall
             /\ NamesTool
             /\ ret.request.Params.name.v \notin ToolNames \/ ~HasFilePath )
              => ToolError

\* C24: as above, where the params of a tools/call that do not decode into
\* a tool call (no object, a name or arguments of the wrong JSON type) get
\* -32602 like a missing name, and the success with isError is for params
\* that decode.
C24_ErrorResponses ==
    Decoded =>
        LET p == ret.request.Params
            decodes == /\ p.t = "obj"
                       /\ p.name.t \in {"absent", "str"}
                       /\ p.arguments.t \in {"absent", "obj"}
        IN /\ EnvelopeRules
           /\ (ToolCall /\ (~decodes \/ ~NamesTool)) => Refused(InvalidParams)
           /\ ( /\ ToolCall
                /\ decodes
                /\ NamesTool
                /\ p.name.v \notin ToolNames \/ ~HasFilePath )
                 => ToolError

\* C24 witness: a tools/call for a known tool without arguments has been
\* answered with a success whose tool result is an error, under the id of
\* the request
C24_Witness ==
    /\ ToolCall
    /\ NamesTool
    /\ ret.request.Params.name.v \in ToolNames
    /\ ret.request.Params.arguments = Absent
    /\ ret.request.ID = Num(1)
    /\ ret.encoded[1].ID = Num(1)
    /\ ToolError

---------------------------------------------------------------------------
(* AccessSpec: AccessControl.ValidatePath and the read that follows it.    *)
(* A path is a sequence of segments, absolute or relative; the files are   *)
(* a tree with directories, regular files and symbolic links.              *)

MaxSegs == 3

MaxFileSize == 50 * 1024 * 1024

\* AccessConfig.BaseDir, made absolute by NewAccessControl
BaseDir == <<"srv", "base">>

\* what is on disk: the base directory with regular files, a file outside
\* it, and two symbolic links inside it that lead outside
Tree ==
    LET dir == [kind |-> "dir", size |-> 0, target |-> <<>>]
        file(n) == [kind |-> "file", size |-> n, target |-> <<>>]
        link(t) == [kind |-> "symlink", size |-> 0, target |-> t]
    IN    <<"srv">>                       :> dir
       @@ <<"srv", "secret.md">>          :> file(1)
       @@ <<"srv", "base">>               :> dir
       @@ <<"srv", "base", "a.md">>       :> file(1)
       @@ <<"srv", "base", "B.MD">>       :> file(1)
       @@ <<"srv", "base", "big.md">>     :> file(MaxFileSize + 1)
       @@ <<"srv", "base", "x.bin">>      :> file(1)
       @@ <<"srv", "base", "link.md">>    :> link(<<"srv", "secret.md">>)
       @@ <<"srv", "base", "dl">>         :> link(<<"srv">>)
       @@ <<"srv", "base", "sub">>        :> dir
       @@ <<"srv", "base", "sub", "a.md">> :> file(1)

Segments ==
    { "..", "srv", "base", "sub", "dl", "a.md", "B.MD", "link.md", "secret.md",
      "big.md", "x.bin" }

\* the file_path arguments of a request
FilePaths ==
    [ abs  : BOOLEAN,
      segs : UNION { [1..n -> Segments] : n \in 0..MaxSegs } ]

\* strings.ToLower(filepath.Ext(name))
Ext(name) ==
    CASE name \in {"a.md", "link.md", "secret.md", "big.md"} -> ".md"
      [] name = "B.MD" -> ".md"
      [] name = "x.bin" -> ".bin"
      [] name = ".." -> "."
      [] OTHER -> ""

\* filepath.Clean of a rooted path: a ".." removes the segment before it,
\* and is dropped at the root
RECURSIVE Clean(_, _)
Clean(done, rest) ==
    IF rest = <<>> THEN done
    ELSE IF Head(rest) = ".."
         THEN Clean(SubSeq(done, 1, Len(done) - 1), Tail(rest))
         ELSE Clean(Append(done, Head(rest)), Tail(rest))

\* the file a path leads to, every symbolic link on the way followed, as
\* os.Stat and os.ReadFile see it
RECURSIVE Follow(_, _)
Follow(done, rest) ==
    IF rest = <<>> THEN [err |-> "", file |-> done]
    ELSE LET next == Append(done, Head(rest)) IN
         IF done # <<>> /\ Tree[done].kind = "file"
         THEN [err |-> "ENOTDIR", file |-> <<>>]
         ELSE IF next \notin DOMAIN Tree THEN [err |-> "ENOENT", file |-> <<>>]
         ELSE IF Tree[next].kind = "symlink"
              THEN Follow(<<>>, Tree[next].target \o Tail(rest))
              ELSE Follow(next, Tail(rest))

\* AccessControl.isWithinBaseDir: the directory of the path, with a
\* separator appended, starts with the base directory and a separator
isWithinBaseDir(absPath) ==
    /\ Len(absPath) > Len(BaseDir)
    /\ SubSeq(absPath, 1, Len(BaseDir)) = BaseDir

\* AccessControl.isAllowedExtension
isAllowedExtension(absPath) ==
    absPath # <<>> /\ Ext(absPath[Len(absPath)]) \in {".md", ".markdown", ".txt"}

\* AccessControl.isAllowedSize
isAllowedSize(absPath) ==
    LET stat == Follow(<<>>, absPath) IN
    stat.err = "" /\ Tree[stat.file].size <= MaxFileSize

\* AccessControl.ValidatePath
ValidatePath(filePath) ==
    LET absPath   == IF filePath.abs THEN filePath.segs
                     ELSE BaseDir \o filePath.segs
        cleanPath == Clean(<<>>, absPath)
        refuse(e) == [err |-> e, path |-> <<>>]
    IN IF ~isWithinBaseDir(cleanPath) THEN refuse("path outside base directory")
       ELSE IF ~isAllowedExtension(cleanPath)
            THEN refuse("file extension not allowed")
       ELSE IF Follow(<<>>, cleanPath).err = "ENOENT"
            THEN refuse("file does not exist")
       ELSE IF ~isAllowedSize(cleanPath) THEN refuse("file too large")
       ELSE [err |-> "", path |-> cleanPath]

\* a caller is about to pass the path arg
AccessInit ==
    /\ arg \in FilePaths
    /\ mu = <<>>
    /\ pc = <<>>
    /\ swept = {}
    /\ ParseIdle
    /\ CacheIdle

\* SecureFileReader.ReadFile, and every tool handler up to its read of the
\* file: ValidatePath, then os.ReadFile of the path it returned.  from is
\* the file whose content is returned.
SecureReadFile(filePath) ==
    LET v == ValidatePath(filePath)
        f == Follow(<<>>, v.path)
        read == v.err = "" /\ f.err = "" /\ Tree[f.file].kind = "file"
    IN /\ ret = <<>>
       /\ ret' = [filePath |-> filePath, err |-> v.err, validPath |-> v.path,
                  read |-> read, from |-> IF read THEN f.file ELSE <<>>]
       /\ UNCHANGED <<parseVars, structures, maxSize, ttl, now, fs, fsOps,
                      concVars>>

AccessNext == SecureReadFile(arg)

AccessSpec == AccessInit /\ [][AccessNext]_vars

\* C25: ValidatePath returns a path only for an existing file of an allowed
\* extension and size that lies inside the base directory once ../ segments
\* are resolved and symbolic links followed; no content is returned from a
\* file outside the base directory.
C25_ValidatedStaysInside ==
    ret # <<>> =>
        /\ ret.err = "" =>
              LET f == Follow(<<>>, ret.validPath) IN
              /\ f.err = ""
              /\ isAllowedExtension(ret.validPath)
              /\ Tree[f.file].size <= MaxFileSize
              /\ Len(f.file) > Len(BaseDir)
              /\ SubSeq(f.file, 1, Len(BaseDir)) = BaseDir
        /\ ret.read =>
              /\ Len(ret.from) > Len(BaseDir)
              /\ SubSeq(ret.from, 1, Len(BaseDir)) = BaseDir

---------------------------------------------------------------------------
(* ReparseSpec: the same bytes extracted twice while the clock runs *)

ReparseDocs == { Join(ls) : ls \in LinesUpTo(MaxReparseLines) }

ReparseInit ==
    /\ content \in ReparseDocs
    /\ parsed = <<>>
    /\ sectionContent = <<>>
    /\ CacheIdle
    /\ ConcIdle

\* a caller runs Parser.ParseStructure on the content once more
Reparse ==
    /\ Len(parsed) < 2
    /\ parsed' = Append(parsed, ParseStructure(content, now))
    /\ UNCHANGED <<content, sectionContent, cacheVars, concVars>>

ReparseNext == Reparse \/ Tick

ReparseSpec == ReparseInit /\ [][ReparseNext]_vars

\* C18: two ParseStructure calls on the same bytes return structures that
\* are equal in every field, LastModified included.
C18_SameBytesSameStructure ==
    Len(parsed) = 2 => parsed[1] = parsed[2]

---------------------------------------------------------------------------
(* Claims on the cache, checked under Spec and CapacitySpec *)

Cached == DOMAIN structures

\* the file is as the entry recorded it
FileAsStored(path) ==
    /\ Stat(path).ok
    /\ ReadFile(path).ok
    /\ fs[path].mtime = structures[path].FileModTime
    /\ md5(fs[path].data) = structures[path].FileHash

Expired(path) == now - structures[path].LastAccessed > ttl

\* C1: a SetStructure(path, s) that stored, followed as the next call by
\* GetStructure(path) less than the TTL later, is a hit returning s.
C1_SetThenGet ==
    [][ ( /\ ret.op = "SetStructure"
          /\ ret.stored
          /\ ret'.op = "GetStructure"
          /\ ret'.path = ret.path
          /\ now - ret.at < ttl )
        => ( ret'.ok /\ ret'.value = ret.value ) ]_vars

\* C1 witness: a hit has just returned a structure that SetStructure was
\* given (no extraction produces the path "x.md")
C1_Witness ==
    /\ ret.op = "GetStructure"
    /\ ret.ok
    /\ ret.value \in { <<s>> : s \in SetValues }
    /\ ret.path \in Cached
    /\ structures[ret.path].LastAccessed = now

\* C2: GetStructure on an entry whose file changed returns nothing, when the
\* modification time differs (the hash is then not computed) and when the
\* modification time is the stored one but the hash differs; the file is
\* read for hashing only when the modification time is the stored one.
C2_ChangedFileMisses ==
    \A p \in Cached :
        LET e == structures[p]
            g == GetStructureOp(structures, p)
        IN (Stat(p).ok /\ ReadFile(p).ok) =>
            /\ fs[p].mtime # e.FileModTime =>
                  (~g.ok /\ g.value = <<>> /\ "read" \notin Range(g.reads))
            /\ (fs[p].mtime = e.FileModTime /\ md5(fs[p].data) # e.FileHash) =>
                  (~g.ok /\ g.value = <<>>)
            /\ "read" \in Range(g.reads) => fs[p].mtime = e.FileModTime

\* C2 witness: GetStructure has just missed on a live entry whose file kept
\* its modification time and changed its content
C2_Witness ==
    /\ ret.op = "GetStructure"
    /\ ~ret.ok
    /\ ret.reads = <<"stat", "read">>
    /\ ret.path \in Cached
    /\ ~Expired(ret.path)
    /\ ReadFile(ret.path).ok
    /\ fs[ret.path].mtime = structures[ret.path].FileModTime
    /\ md5(fs[ret.path].data) # structures[ret.path].FileHash

\* C3: the structure of a cache entry that extraction produced stays the
\* tree extracted from the content whose hash the entry records, whatever
\* requests were served from it.
C3_CachedStructureIntact ==
    \A p \in Cached :
        structures[p].Structure.FilePath = p =>
            structures[p].Structure.Structure =
                Extracted[structures[p].FileHash.md5].Structure

C6_SizeBounded == Cardinality(Cached) <= maxSize

\* C6 witness: the table is full after a call that had to evict
C6_Witness ==
    /\ Cardinality(Cached) = maxSize
    /\ ret.evicted # ""
    /\ ret.stored

\* C7: GetStructure returns nothing for an entry last accessed more than the
\* TTL ago; a hit sets LastAccessed to the current time; an entry whose
\* file is as stored and whose last access is at most the TTL old is a hit.
C7_TtlFromLastAccess ==
    \A p \in Cached :
        LET g == GetStructureOp(structures, p) IN
        /\ Expired(p) => (~g.ok /\ g.value = <<>>)
        /\ g.ok => g.structures[p].LastAccessed = now
        /\ (~Expired(p) /\ FileAsStored(p)) => g.ok

\* C7 witness: GetStructure has just missed on an entry of an unchanged file
\* because its last access is more than the TTL old
C7_Witness ==
    /\ ret.op = "GetStructure"
    /\ ~ret.ok
    /\ ret.path \in Cached
    /\ Expired(ret.path)
    /\ FileAsStored(ret.path)

\* C9: GetStructure returns nothing for an entry whose file cannot be
\* stat'ed or cannot be read.
C9_UnreadableMisses ==
    \A p \in Cached :
        LET g == GetStructureOp(structures, p) IN
        (~Stat(p).ok \/ ~ReadFile(p).ok) => (~g.ok /\ g.value = <<>>)

\* C9 witness: GetStructure has just missed on a live entry whose file has
\* the stored modification time and cannot be read
C9_Witness ==
    /\ ret.op = "GetStructure"
    /\ ~ret.ok
    /\ ret.path \in Cached
    /\ ~Expired(ret.path)
    /\ Stat(ret.path).ok
    /\ ~ReadFile(ret.path).ok
    /\ fs[ret.path].mtime = structures[ret.path].FileModTime

\* Cache.Size
Size(S) == Cardinality(DOMAIN S)

\* Cache.GetCachedFiles
GetCachedFiles(S) == DOMAIN S

\* the file's modification time or content hash is not the stored one
Stale(path) ==
    /\ Stat(path).ok
    /\ ReadFile(path).ok
    /\ \/ fs[path].mtime # structures[path].FileModTime
       \/ md5(fs[path].data) # structures[path].FileHash

\* C26: a GetStructure that finds the entry expired or stale returns nothing
\* and leaves the table without the entry, so that Size() and
\* GetCachedFiles() no longer count it.
C26_MissRemovesEntry ==
    \A p \in Cached :
        LET g == GetStructureOp(structures, p) IN
        (Expired(p) \/ Stale(p)) =>
            /\ ~g.ok
            /\ p \notin GetCachedFiles(g.structures)
            /\ Size(g.structures) = Size(structures) - 1

\* C27: SetStructure for a path that already has an entry, in a table that
\* holds maxSize entries, replaces that entry and keeps every other entry.
C27_OverwriteKeepsOthers ==
    Size(structures) = maxSize =>
        \A p \in Cached, s \in SetValues, oldestKey \in Victims(structures) :
            LET r == SetStructureOp(structures, p, s, oldestKey) IN
            r.stored =>
                /\ DOMAIN r.structures = Cached
                /\ r.structures[p].Structure = s
                /\ \A x \in Cached \ {p} : r.structures[x] = structures[x]

---------------------------------------------------------------------------
(* RaceSpec: StructureManager.GetDocumentStructure and                     *)
(* Cache.RefreshStructure taken one file-system call at a time, while the  *)
(* file is rewritten.  pc is the caller's position, arg its locals.        *)

RaceInit ==
    /\ LET c == NewCache(MaxSizeArg, TtlArg) IN
          /\ structures = c.structures
          /\ maxSize = c.maxSize
          /\ ttl = c.ttl
    /\ now = 0
    /\ fs = [p \in Paths |->
                [exists |-> TRUE, readable |-> TRUE, mtime |-> 0, data |-> DocAB]]
    /\ fsOps = 0
    /\ ret = [op |-> "NewCache", path |-> "", ok |-> FALSE,
              stored |-> FALSE, value |-> <<>>, reads |-> <<>>,
              evicted |-> "", at |-> 0]
    /\ mu = <<>>
    /\ pc = "idle"
    /\ arg = <<>>
    /\ swept = {}
    /\ ParseIdle

\* GetDocumentStructure up to the return on a hit: sm.cache.GetStructure
DocLookup(path) ==
    LET g == GetStructureOp(structures, path) IN
    /\ pc = "idle"
    /\ structures' = g.structures
    /\ pc' = IF g.ok THEN "idle" ELSE "read"
    /\ arg' = IF g.ok THEN <<>> ELSE [op |-> "GetDocumentStructure", path |-> path]
    /\ Called("GetDocumentStructure", path, g.ok, FALSE, g.value, g.reads, "")
    /\ UNCHANGED <<maxSize, ttl, now, fs, fsOps, mu, swept, parseVars>>

\* RefreshStructure up to os.ReadFile: c.InvalidateStructure
RefreshInvalidate(path) ==
    /\ pc = "idle"
    /\ structures' = InvalidateOp(structures, path)
    /\ pc' = "read"
    /\ arg' = [op |-> "RefreshStructure", path |-> path]
    /\ UNCHANGED <<maxSize, ttl, now, fs, fsOps, ret, mu, swept, parseVars>>

\* os.ReadFile, ParseStructure, FilePath and the os.Stat for LastModified
DocRead ==
    LET r == ReadFile(arg.path) IN
    /\ pc = "read"
    /\ pc' = IF r.ok THEN "set" ELSE "idle"
    /\ arg' = IF r.ok
              THEN [op |-> arg.op, path |-> arg.path,
                    structure |-> ParseFile(arg.path, r.data)]
              ELSE <<>>
    /\ IF r.ok THEN UNCHANGED ret
       ELSE Called(arg.op, arg.path, FALSE, FALSE, <<>>, <<>>, "")
    /\ UNCHANGED <<structures, maxSize, ttl, now, fs, fsOps, mu, swept, parseVars>>

\* the SetStructure call that ends both functions
DocSet ==
    /\ pc = "set"
    /\ \E oldestKey \in Victims(structures) :
          LET r == SetStructureOp(structures, arg.path, arg.structure, oldestKey) IN
          /\ structures' = r.structures
          /\ Called(arg.op, arg.path, FALSE, r.stored, <<arg.structure>>, <<>>,
                    r.evicted)
    /\ pc' = "idle"
    /\ arg' = <<>>
    /\ UNCHANGED <<maxSize, ttl, now, fs, fsOps, mu, swept, parseVars>>

RaceNext ==
    \/ Tick
    \/ \E p \in FsPaths, d \in CacheDocs, k \in BOOLEAN : WriteFile(p, d, k)
    \/ \E p \in FsPaths : Chmod(p)
    \/ \E p \in FsPaths : DocLookup(p)
    \/ \E p \in FsPaths : RefreshInvalidate(p)
    \/ DocRead
    \/ DocSet

RaceSpec == RaceInit /\ [][RaceNext]_vars

\* C28: a hit of GetStructure returns the structure extracted from the
\* content whose hash the entry stores, however GetDocumentStructure and
\* RefreshStructure calls interleave with writes of the file.
C28_HitMatchesHash ==
    \A p \in Cached :
        LET g == GetStructureOp(structures, p) IN
        g.ok =>
            LET fromHash == Extracted[structures[p].FileHash.md5] IN
            /\ g.value[1].Structure = fromHash.Structure
            /\ g.value[1].TotalChars = fromHash.TotalChars
            /\ g.value[1].TotalLines = fromHash.TotalLines

---------------------------------------------------------------------------
(* ConcSpec: goroutines calling the cache concurrently, and the sweep.     *)
(* sync.RWMutex: Lock first takes the writer mutex w, which stops new      *)
(* RLocks, then waits until the readers that hold the lock have left;      *)
(* RLock succeeds while no writer holds w.  A goroutine's deferred unlock  *)
(* is taken together with its last access.                                 *)

Workers    == {"g1", "g2"}
Sweeper    == "sweep"
Goroutines == Workers \cup {Sweeper}
ConcPaths  == {"a.md", "b.md"}
NoWriter   == "none"

ConcValue == CHOOSE s \in SetValues : TRUE

ConcInit ==
    /\ LET c == NewCache(MaxSizeArg, TtlArg) IN
          /\ structures = c.structures
          /\ maxSize = c.maxSize
          /\ ttl = c.ttl
    /\ now = 0
    /\ fs = [p \in Paths |->
                [exists |-> TRUE, readable |-> TRUE, mtime |-> 0, data |-> DocAB]]
    /\ fsOps = 0
    /\ ret = <<>>
    /\ mu = [w |-> NoWriter, readers |-> {}]
    /\ pc = [g \in Goroutines |-> IF g = Sweeper THEN "sw_wait" ELSE "idle"]
    /\ arg = [g \in Goroutines |-> ""]
    /\ swept = {}
    /\ ParseIdle

ConcFrame == UNCHANGED <<maxSize, ttl, now, fs, fsOps, ret, parseVars>>

\* c.mu.RLock()
RLock(g) ==
    /\ mu.w = NoWriter
    /\ mu' = [mu EXCEPT !.readers = @ \cup {g}]

\* c.mu.RUnlock()
RUnlock(g) == mu' = [mu EXCEPT !.readers = @ \ {g}]

\* the first half of c.mu.Lock(): the writer mutex
LockW(g) ==
    /\ mu.w = NoWriter
    /\ mu' = [mu EXCEPT !.w = g]

\* the second half of c.mu.Lock() is passed: the readers have left
Locked(g) == mu.w = g /\ mu.readers = {}

\* c.mu.Unlock()
Unlock(g) == mu' = [mu EXCEPT !.w = NoWriter]

Goto(g, label, path) ==
    /\ pc' = [pc EXCEPT ![g] = label]
    /\ arg' = [arg EXCEPT ![g] = path]

\* GetStructure: c.mu.RLock()
GetRLock(g, path) ==
    /\ pc[g] = "idle"
    /\ RLock(g)
    /\ Goto(g, "get_lookup", path)
    /\ UNCHANGED <<structures, swept>>
    /\ ConcFrame

\* GetStructure: the map lookup, the expiry test and isFileUnchanged; a miss
\* returns (and unlocks)
GetLookup(g) ==
    /\ pc[g] = "get_lookup"
    /\ IF GetStructureOp(structures, arg[g]).ok
       THEN /\ Goto(g, "get_touch", arg[g])
            /\ UNCHANGED mu
       ELSE /\ Goto(g, "idle", "")
            /\ RUnlock(g)
    /\ UNCHANGED <<structures, swept>>
    /\ ConcFrame

\* GetStructure: entry.LastAccessed = time.Now(), return (and unlock)
GetTouch(g) ==
    /\ pc[g] = "get_touch"
    /\ structures' = [structures EXCEPT ![arg[g]].LastAccessed = now]
    /\ RUnlock(g)
    /\ Goto(g, "idle", "")
    /\ UNCHANGED swept
    /\ ConcFrame

\* Stats: c.mu.RLock()
StatsRLock(g) ==
    /\ pc[g] = "idle"
    /\ RLock(g)
    /\ Goto(g, "stats_read", "")
    /\ UNCHANGED <<structures, swept>>
    /\ ConcFrame

\* Stats: the loop reading every entry's LastAccessed, return (and unlock)
StatsRead(g) ==
    /\ pc[g] = "stats_read"
    /\ RUnlock(g)
    /\ Goto(g, "idle", "")
    /\ UNCHANGED <<structures, swept>>
    /\ ConcFrame

\* SetStructure, InvalidateStructure, Clear: c.mu.Lock() takes w
WriterLock(g, label, path) ==
    /\ pc[g] = "idle"
    /\ LockW(g)
    /\ Goto(g, label, path)
    /\ UNCHANGED <<structures, swept>>
    /\ ConcFrame

SetLock(g, path) == WriterLock(g, "set_body", path)

InvalidateLock(g, path) == WriterLock(g, "invalidate_body", path)

ClearLock(g) == WriterLock(g, "clear_body", "")

\* SetStructure under the lock, return (and unlock)
SetBody(g) ==
    /\ pc[g] = "set_body"
    /\ Locked(g)
    /\ \E oldestKey \in Victims(structures) :
          structures' =
              SetStructureOp(structures, arg[g], ConcValue, oldestKey).structures
    /\ Unlock(g)
    /\ Goto(g, "idle", "")
    /\ UNCHANGED swept
    /\ ConcFrame

\* InvalidateStructure under the lock, return (and unlock)
InvalidateBody(g) ==
    /\ pc[g] = "invalidate_body"
    /\ Locked(g)
    /\ structures' = InvalidateOp(structures, arg[g])
    /\ Unlock(g)
    /\ Goto(g, "idle", "")
    /\ UNCHANGED swept
    /\ ConcFrame

\* Clear under the lock, return (and unlock)
ClearBody(g) ==
    /\ pc[g] = "clear_body"
    /\ Locked(g)
    /\ structures' = <<>>
    /\ Unlock(g)
    /\ Goto(g, "idle", "")
    /\ UNCHANGED swept
    /\ ConcFrame

\* cleanupExpired: the ticker fires and c.mu.Lock() takes w
SweepLock ==
    /\ pc[Sweeper] = "sw_wait"
    /\ LockW(Sweeper)
    /\ Goto(Sweeper, "sw_pass", "")
    /\ swept' = {}
    /\ UNCHANGED structures
    /\ ConcFrame

\* cleanupExpired: the loop over the entries, under the lock
SweepPass ==
    /\ pc[Sweeper] = "sw_pass"
    /\ Locked(Sweeper)
    /\ structures' = SweepOp(structures, now, ttl)
    /\ swept' = DOMAIN structures \ DOMAIN structures'
    /\ Goto(Sweeper, "sw_unlock", "")
    /\ UNCHANGED mu
    /\ ConcFrame

\* cleanupExpired: c.mu.Unlock(), back to the ticker
SweepUnlock ==
    /\ pc[Sweeper] = "sw_unlock"
    /\ Unlock(Sweeper)
    /\ Goto(Sweeper, "sw_wait", "")
    /\ UNCHANGED <<structures, swept>>
    /\ ConcFrame

\* time passes
ConcTick ==
    /\ now < MaxClock
    /\ now' = now + 1
    /\ UNCHANGED <<structures, maxSize, ttl, fs, fsOps, ret, parseVars, concVars>>

WorkerStep(g) ==
    \/ \E p \in ConcPaths : GetRLock(g, p)
    \/ GetLookup(g)
    \/ GetTouch(g)
    \/ StatsRLock(g)
    \/ StatsRead(g)
    \/ \E p \in ConcPaths : SetLock(g, p)
    \/ SetBody(g)
    \/ \E p \in ConcPaths : InvalidateLock(g, p)
    \/ InvalidateBody(g)
    \/ ClearLock(g)
    \/ ClearBody(g)

\* what a goroutine that is inside a call does next
WorkerProgress(g) ==
    \/ GetLookup(g)
    \/ GetTouch(g)
    \/ StatsRead(g)
    \/ SetBody(g)
    \/ InvalidateBody(g)
    \/ ClearBody(g)

ConcNext ==
    \/ ConcTick
    \/ \E g \in Workers : WorkerStep(g)
    \/ SweepLock
    \/ SweepPass
    \/ SweepUnlock

ConcSpec == ConcInit /\ [][ConcNext]_vars

\* The scheduler runs every goroutine that can take a step; the ticker keeps
\* firing and sync.Mutex does not starve a waiting Lock; time passes.
ConcFairSpec ==
    /\ ConcSpec
    /\ WF_vars(ConcTick)
    /\ \A g \in Workers : WF_vars(WorkerProgress(g))
    /\ SF_vars(SweepLock)
    /\ WF_vars(SweepPass)
    /\ WF_vars(SweepUnlock)

---------------------------------------------------------------------------
(* Claims on the cache under concurrency *)

Fields == {"Structure", "LastAccessed", "FileModTime", "FileHash"}
Table  == <<"", "table">>

\* the memory a goroutine's next step writes
PendingWrites(g) ==
    IF pc[g] = "get_touch" THEN { <<arg[g], "LastAccessed">> }
    ELSE IF pc[g] \in {"set_body", "invalidate_body", "clear_body", "sw_pass"}
            /\ Locked(g)
    THEN {Table} \cup { <<p, f>> : p \in DOMAIN structures, f \in Fields }
    ELSE {}

\* the memory a goroutine's next step reads
PendingReads(g) ==
    IF pc[g] = "get_lookup"
    THEN {Table} \cup { <<p, f>> : p \in DOMAIN structures \cap {arg[g]},
                                    f \in Fields \ {"Structure"} }
    ELSE IF pc[g] = "stats_read"
    THEN {Table} \cup { <<p, "LastAccessed">> : p \in DOMAIN structures }
    ELSE {}

\* C4: no two goroutines are about to access the same memory of the cache,
\* one of them writing.
C4_NoDataRace ==
    \A g1 \in Goroutines, g2 \in Goroutines :
        g1 # g2 =>
            PendingWrites(g1) \cap (PendingWrites(g2) \cup PendingReads(g2)) = {}

\* C8: an entry that is old enough for the clock to pass its TTL does not
\* stay as it is: it is accessed again or removed; the sweep works on the
\* table only while it holds the lock alone, and it gives the lock back.
C8_SweepRemovesExpired ==
    /\ \A p \in ConcPaths : \A t \in 0..MaxClock :
          ( /\ p \in DOMAIN structures
            /\ structures[p].LastAccessed = t
            /\ t + ttl < MaxClock )
          ~> ~( p \in DOMAIN structures /\ structures[p].LastAccessed = t )
    /\ [](pc[Sweeper] \in {"sw_pass", "sw_unlock"} => mu.w = Sweeper)
    /\ [](pc[Sweeper] = "sw_unlock" => mu.readers = {})
    /\ (mu.w = Sweeper) ~> (mu.w # Sweeper)

\* C8 witness: a sweep pass has deleted an expired entry that no goroutine
\* was reading, and still holds the lock
C8_Witness ==
    /\ pc[Sweeper] = "sw_unlock"
    /\ swept # {}
    /\ mu.w = Sweeper
    /\ \A g \in Workers : pc[g] = "idle"

=============================================================================
